---- MODULE Spec2Model ----
(***************************************************************************)
(* Model of the gocli shell: tokenizer and parser (parsing.go), variable   *)
(* substitution and the pipeline executor (pipeline.go), the command       *)
(* resolver and the command bodies (commands.go), the environment store.   *)
(*                                                                         *)
(* A Go string is a sequence of one-character strings.  Go indices are     *)
(* 0-based; sequences here are 1-based, so stage/argument/token number k   *)
(* of the source is element k+1 of the model.                              *)
(***************************************************************************)
EXTENDS Integers, Sequences, FiniteSets, TLC

(***************************************************************************)
(* Bounds                                                                  *)
(***************************************************************************)
MaxStages == 3

(***************************************************************************)
(* strings helpers (package strings)                                       *)
(***************************************************************************)
WhiteSpace == {" ", "\t", "\n", "\r"}

WordChars ==
    {"a","b","c","d","e","f","g","h","i","j","k","l","m","n","o","p","q","r",
     "s","t","u","v","w","x","y","z",
     "A","B","C","D","E","F","G","H","I","J","K","L","M","N","O","P","Q","R",
     "S","T","U","V","W","X","Y","Z",
     "0","1","2","3","4","5","6","7","8","9","_"}

Digits == {"0","1","2","3","4","5","6","7","8","9"}

Contains(s, c) == \E k \in 1..Len(s) : s[k] = c

HasPrefix(s, c) == Len(s) >= 1 /\ s[1] = c

HasSuffix(s, c) == Len(s) >= 1 /\ s[Len(s)] = c

\* position of the first c in s at or after k, 0 when there is none
RECURSIVE IndexFrom(_, _, _)
IndexFrom(s, c, k) ==
    IF k > Len(s) THEN 0
    ELSE IF s[k] = c THEN k
    ELSE IndexFrom(s, c, k + 1)

\* strings.Split(s, c) for a one-character separator
RECURSIVE SplitAcc(_, _, _, _, _)
SplitAcc(s, c, k, cur, acc) ==
    IF k > Len(s) THEN Append(acc, cur)
    ELSE IF s[k] = c THEN SplitAcc(s, c, k + 1, <<>>, Append(acc, cur))
    ELSE SplitAcc(s, c, k + 1, Append(cur, s[k]), acc)

Split(s, c) == SplitAcc(s, c, 1, <<>>, <<>>)

\* strings.SplitN(s, c, 2)
SplitN2(s, c) ==
    LET p == IndexFrom(s, c, 1)
    IN  IF p = 0 THEN <<s>>
        ELSE <<SubSeq(s, 1, p - 1), SubSeq(s, p + 1, Len(s))>>

RECURSIVE TrimLeft(_)
TrimLeft(s) ==
    IF s # <<>> /\ s[1] \in WhiteSpace THEN TrimLeft(Tail(s)) ELSE s

RECURSIVE TrimRight(_)
TrimRight(s) ==
    IF s # <<>> /\ s[Len(s)] \in WhiteSpace
    THEN TrimRight(SubSeq(s, 1, Len(s) - 1)) ELSE s

TrimSpace(s) == TrimRight(TrimLeft(s))

RECURSIVE Flatten(_)
Flatten(ss) == IF ss = <<>> THEN <<>> ELSE Head(ss) \o Flatten(Tail(ss))

(***************************************************************************)
(* Command names (shell.go constants)                                      *)
(***************************************************************************)
EnvAssignmentCmd == <<"$">>
ExitCommand == <<"e","x","i","t">>
PWDCommand == <<"p","w","d">>
CatCommand == <<"c","a","t">>
EchoCommand == <<"e","c","h","o">>
WCCommand == <<"w","c">>
GrepCommand == <<"g","r","e","p">>

(***************************************************************************)
(* Tokenizer: tokenizeWithQuotes                                           *)
(***************************************************************************)
TokInit ==
    [tokens |-> <<>>, singleQuoted |-> {}, doubleQuoted |-> {},
     current |-> <<>>, inSingleQuote |-> FALSE, inDoubleQuote |-> FALSE,
     tokenStartedInSingle |-> FALSE, tokenStartedInDouble |-> FALSE]

\* append the current token and its flags (the index is that of the new token)
TokEmit(st) ==
    LET idx == Len(st.tokens) + 1
    IN  [st EXCEPT
           !.tokens = Append(st.tokens, st.current),
           !.singleQuoted =
               IF st.tokenStartedInSingle /\ ~st.inSingleQuote
               THEN st.singleQuoted \cup {idx} ELSE st.singleQuoted,
           !.doubleQuoted =
               IF st.tokenStartedInDouble /\ ~st.inDoubleQuote
               THEN st.doubleQuoted \cup {idx} ELSE st.doubleQuoted]

\* a scan loop in which a single quote toggles inside double quotes too
TokStep_QuotesNest(st, char) ==
    IF char = "'" THEN
        IF st.inSingleQuote THEN [st EXCEPT !.inSingleQuote = FALSE]
        ELSE [st EXCEPT !.inSingleQuote = TRUE,
                        !.tokenStartedInSingle =
                            IF st.current = <<>> THEN TRUE
                            ELSE st.tokenStartedInSingle]
    ELSE IF char = "\"" /\ ~st.inSingleQuote THEN
        IF st.inDoubleQuote THEN [st EXCEPT !.inDoubleQuote = FALSE]
        ELSE [st EXCEPT !.inDoubleQuote = TRUE,
                        !.tokenStartedInDouble =
                            IF st.current = <<>> THEN TRUE
                            ELSE st.tokenStartedInDouble]
    ELSE IF (char = " " \/ char = "\t")
            /\ ~st.inSingleQuote /\ ~st.inDoubleQuote THEN
        IF st.current # <<>>
        THEN [TokEmit(st) EXCEPT !.current = <<>>,
                                 !.tokenStartedInSingle = FALSE,
                                 !.tokenStartedInDouble = FALSE]
        ELSE st
    ELSE [st EXCEPT !.current = Append(st.current, char)]

\* one iteration of the scan loop
TokStep(st, char) ==
    IF char = "'" /\ ~st.inDoubleQuote THEN
        IF st.inSingleQuote THEN [st EXCEPT !.inSingleQuote = FALSE]
        ELSE [st EXCEPT !.inSingleQuote = TRUE,
                        !.tokenStartedInSingle =
                            IF st.current = <<>> THEN TRUE
                            ELSE st.tokenStartedInSingle]
    ELSE IF char = "\"" /\ ~st.inSingleQuote THEN
        IF st.inDoubleQuote THEN [st EXCEPT !.inDoubleQuote = FALSE]
        ELSE [st EXCEPT !.inDoubleQuote = TRUE,
                        !.tokenStartedInDouble =
                            IF st.current = <<>> THEN TRUE
                            ELSE st.tokenStartedInDouble]
    ELSE IF (char = " " \/ char = "\t")
            /\ ~st.inSingleQuote /\ ~st.inDoubleQuote THEN
        IF st.current # <<>>
        THEN [TokEmit(st) EXCEPT !.current = <<>>,
                                 !.tokenStartedInSingle = FALSE,
                                 !.tokenStartedInDouble = FALSE]
        ELSE st
    ELSE [st EXCEPT !.current = Append(st.current, char)]

RECURSIVE TokScan(_, _, _)
TokScan(input, k, st) ==
    IF k > Len(input) THEN st ELSE TokScan(input, k + 1, TokStep(st, input[k]))

\* a tokenizer without the emit at the end of the input
tokenizeWithQuotes_NoFinalEmit(input) == TokScan(input, 1, TokInit)

\* a tokenizer that throws away a token whose quote was never closed
tokenizeWithQuotes_DropsOpenToken(input) ==
    LET st == TokScan(input, 1, TokInit)
    IN  IF st.current # <<>> /\ ~st.inSingleQuote /\ ~st.inDoubleQuote
        THEN TokEmit(st) ELSE st

tokenizeWithQuotes(input) ==
    LET st == TokScan(input, 1, TokInit)
    IN  IF st.current # <<>> THEN TokEmit(st) ELSE st

(***************************************************************************)
(* Parser: Parse and parsePipeline                                         *)
(***************************************************************************)
LT == <<"<">>
GT == <<">">>

IsAssignmentToken(t) ==
    /\ Contains(t, "=")
    /\ ~HasPrefix(t, "=")
    /\ ~HasSuffix(t, "=")
    /\ t # LT
    /\ t # GT
    /\ Len(SplitN2(t, "=")) = 2

\* a count that stops after the first assignment token
CmdStartIdx_FirstOnly(tokens, k) ==
    IF k <= Len(tokens) /\ IsAssignmentToken(tokens[k]) THEN k ELSE k - 1

\* number of leading assignment tokens (cmdStartIdx)
RECURSIVE CmdStartIdx(_, _)
CmdStartIdx(tokens, k) ==
    IF k <= Len(tokens) /\ IsAssignmentToken(tokens[k])
    THEN CmdStartIdx(tokens, k + 1)
    ELSE k - 1

\* an assignment descriptor whose key and value count as single-quoted
AssignmentDesc_SingleQuoted(t) ==
    LET kv == SplitN2(t, "=")
    IN  [name |-> EnvAssignmentCmd,
         arguments |-> <<kv[1], kv[2]>>,
         fileInPath |-> <<>>,
         fileOutPath |-> <<>>,
         isPiped |-> Len(kv) > 1,
         singleQuotedArgs |-> {1, 2},
         doubleQuotedArgs |-> {}]

AssignmentDesc(t) ==
    LET kv == SplitN2(t, "=")
    IN  [name |-> EnvAssignmentCmd,
         arguments |-> <<kv[1], kv[2]>>,
         fileInPath |-> <<>>,
         fileOutPath |-> <<>>,
         isPiped |-> Len(kv) > 1,
         singleQuotedArgs |-> {},
         doubleQuotedArgs |-> {}]

\* a scan in which the first path of a direction is kept
RECURSIVE RedirScan_FirstWins(_, _, _, _)
RedirScan_FirstWins(tokens, tk, j, acc) ==
    IF j > Len(tokens) THEN acc
    ELSE IF tokens[j] = LT /\ j + 1 <= Len(tokens)
    THEN RedirScan_FirstWins(tokens, tk, j + 2,
            IF acc.inFile = <<>>
            THEN [acc EXCEPT !.inFile = tokens[j + 1]] ELSE acc)
    ELSE IF tokens[j] = GT /\ j + 1 <= Len(tokens)
    THEN RedirScan_FirstWins(tokens, tk, j + 2,
            IF acc.outFile = <<>>
            THEN [acc EXCEPT !.outFile = tokens[j + 1]] ELSE acc)
    ELSE LET argIdx == Len(acc.newArgs) + 1
         IN  RedirScan_FirstWins(tokens, tk, j + 1,
                [acc EXCEPT
                   !.newArgs = Append(acc.newArgs, tokens[j]),
                   !.singleQuotedArgs =
                       IF j \in tk.singleQuoted
                       THEN acc.singleQuotedArgs \cup {argIdx}
                       ELSE acc.singleQuotedArgs,
                   !.doubleQuotedArgs =
                       IF j \in tk.doubleQuoted
                       THEN acc.doubleQuotedArgs \cup {argIdx}
                       ELSE acc.doubleQuotedArgs])

\* a scan that keeps the token index of a flagged token as its argument index
RECURSIVE RedirScan_NoRemap(_, _, _, _)
RedirScan_NoRemap(tokens, tk, j, acc) ==
    IF j > Len(tokens) THEN acc
    ELSE IF tokens[j] = LT /\ j + 1 <= Len(tokens)
    THEN RedirScan_NoRemap(tokens, tk, j + 2,
            [acc EXCEPT !.inFile = tokens[j + 1]])
    ELSE IF tokens[j] = GT /\ j + 1 <= Len(tokens)
    THEN RedirScan_NoRemap(tokens, tk, j + 2,
            [acc EXCEPT !.outFile = tokens[j + 1]])
    ELSE RedirScan_NoRemap(tokens, tk, j + 1,
            [acc EXCEPT
               !.newArgs = Append(acc.newArgs, tokens[j]),
               !.singleQuotedArgs =
                   IF j \in tk.singleQuoted
                   THEN acc.singleQuotedArgs \cup {j}
                   ELSE acc.singleQuotedArgs,
               !.doubleQuotedArgs =
                   IF j \in tk.doubleQuoted
                   THEN acc.doubleQuotedArgs \cup {j}
                   ELSE acc.doubleQuotedArgs])

\* the redirection / argument scan over tokens j..len
RECURSIVE RedirScan(_, _, _, _)
RedirScan(tokens, tk, j, acc) ==
    IF j > Len(tokens) THEN acc
    ELSE IF tokens[j] = LT /\ j + 1 <= Len(tokens)
    THEN RedirScan(tokens, tk, j + 2, [acc EXCEPT !.inFile = tokens[j + 1]])
    ELSE IF tokens[j] = GT /\ j + 1 <= Len(tokens)
    THEN RedirScan(tokens, tk, j + 2, [acc EXCEPT !.outFile = tokens[j + 1]])
    ELSE LET argIdx == Len(acc.newArgs) + 1
         IN  RedirScan(tokens, tk, j + 1,
                [acc EXCEPT
                   !.newArgs = Append(acc.newArgs, tokens[j]),
                   !.singleQuotedArgs =
                       IF j \in tk.singleQuoted
                       THEN acc.singleQuotedArgs \cup {argIdx}
                       ELSE acc.singleQuotedArgs,
                   !.doubleQuotedArgs =
                       IF j \in tk.doubleQuoted
                       THEN acc.doubleQuotedArgs \cup {argIdx}
                       ELSE acc.doubleQuotedArgs])

\* the descriptors one stage fragment contributes (body of the parts loop)
StageDescs(rawPart, notLast) ==
    LET part == TrimSpace(rawPart)
        tk == tokenizeWithQuotes(part)
        tokens == tk.tokens
        start == CmdStartIdx(tokens, 1)
        assignments == [k \in 1..start |-> AssignmentDesc(tokens[k])]
        sc == RedirScan(tokens, tk, start + 1,
                 [inFile |-> <<>>, outFile |-> <<>>, newArgs |-> <<>>,
                  singleQuotedArgs |-> {}, doubleQuotedArgs |-> {}])
    IN  IF part = <<>> THEN <<>>
        ELSE IF Len(tokens) = 0 THEN <<>>
        ELSE IF start >= Len(tokens) THEN assignments
        ELSE IF Len(sc.newArgs) = 0 THEN assignments
        ELSE Append(assignments,
                [name |-> sc.newArgs[1],
                 arguments |-> sc.newArgs,
                 fileInPath |-> sc.inFile,
                 fileOutPath |-> sc.outFile,
                 isPiped |-> notLast,
                 singleQuotedArgs |-> sc.singleQuotedArgs,
                 doubleQuotedArgs |-> sc.doubleQuotedArgs])

parsePipeline(input) ==
    LET parts == Split(input, "|")
    IN  Flatten([k \in 1..Len(parts) |-> StageDescs(parts[k], k < Len(parts))])

\* the error Parse returns with the list: always nil
ParseError(input) == FALSE

\* the pieces of s between the characters c that stand outside quotes
RECURSIVE SplitUnquoted(_, _, _, _, _, _)
SplitUnquoted(s, c, k, quote, cur, acc) ==
    IF k > Len(s) THEN Append(acc, cur)
    ELSE IF s[k] = c /\ quote = ""
    THEN SplitUnquoted(s, c, k + 1, quote, <<>>, Append(acc, cur))
    ELSE SplitUnquoted(s, c, k + 1,
            IF quote = "" /\ s[k] \in {"'", "\""} THEN s[k]
            ELSE IF quote = s[k] THEN "" ELSE quote,
            Append(cur, s[k]), acc)

\* a parser for which a `;` inside quotes does not end the clause
Parse_SplitsOutsideQuotes(input) ==
    LET rawCommands == SplitUnquoted(input, ";", 1, "", <<>>, <<>>)
        clause(k) == TrimSpace(rawCommands[k])
    IN  Flatten([k \in 1..Len(rawCommands) |->
                   IF clause(k) = <<>> THEN <<>> ELSE parsePipeline(clause(k))])

\* a parser that returns the clauses of the line last to first
Parse_ClausesReversed(input) ==
    LET rawCommands == Split(input, ";")
        count == Len(rawCommands)
        clause(k) == TrimSpace(rawCommands[count + 1 - k])
    IN  Flatten([k \in 1..count |->
                   IF clause(k) = <<>> THEN <<>> ELSE parsePipeline(clause(k))])

\* a parser in which an empty clause still yields a descriptor
Parse_KeepsEmptyClauses(input) ==
    LET rawCommands == Split(input, ";")
        clause(k) == TrimSpace(rawCommands[k])
    IN  Flatten([k \in 1..Len(rawCommands) |->
                   IF clause(k) = <<>>
                   THEN <<[name |-> <<>>, arguments |-> <<>>,
                           fileInPath |-> <<>>, fileOutPath |-> <<>>,
                           isPiped |-> FALSE,
                           singleQuotedArgs |-> {}, doubleQuotedArgs |-> {}]>>
                   ELSE parsePipeline(clause(k))])

Parse(input) ==
    LET rawCommands == Split(input, ";")
        clause(k) == TrimSpace(rawCommands[k])
    IN  Flatten([k \in 1..Len(rawCommands) |->
                   IF clause(k) = <<>> THEN <<>> ELSE parsePipeline(clause(k))])

(***************************************************************************)
(* Environment store (envMap): a function from keys to values              *)
(***************************************************************************)
EnvHas(e, key) == key \in DOMAIN e

EnvGet(e, key) == IF key \in DOMAIN e THEN e[key] ELSE <<>>

\* a store that forgets every other key when one is set
EnvSet_ForgetsOthers(e, key, value) == [k \in {key} |-> value]

EnvSet(e, key, value) ==
    [k \in DOMAIN e \cup {key} |-> IF k = key THEN value ELSE e[k]]

(***************************************************************************)
(* Variable substitution: varDollar and expandVar                          *)
(***************************************************************************)
\* last index of the run of word characters starting at k (k - 1 when none)
RECURSIVE WordRunEnd(_, _)
WordRunEnd(s, k) ==
    IF k <= Len(s) /\ s[k] \in WordChars THEN WordRunEnd(s, k + 1) ELSE k - 1

\* end index of the leftmost-first match of varDollar starting at k, 0 if none
MatchEnd(s, k) ==
    IF s[k] # "$" THEN 0
    ELSE IF WordRunEnd(s, k + 1) > k THEN WordRunEnd(s, k + 1)
    ELSE IF k + 1 <= Len(s) /\ s[k + 1] = "{"
    THEN LET q == IndexFrom(s, "}", k + 2)
         IN  IF q > k + 2 THEN q ELSE 0
    ELSE 0

\* the key the replacement callback extracts from a match
MatchKey(match) ==
    IF Len(match) >= 2 /\ match[1] = "$" /\ match[2] = "{"
       /\ match[Len(match)] = "}"
    THEN SubSeq(match, 3, Len(match) - 1)
    ELSE SubSeq(match, 2, Len(match))

\* the callback with an unset variable replaced by the empty string
Replacement_EmptyWhenUnset(match, e) == EnvGet(e, MatchKey(match))

\* the replacement callback
Replacement(match, e) ==
    IF EnvHas(e, MatchKey(match)) THEN EnvGet(e, MatchKey(match)) ELSE match

RECURSIVE ExpandFrom(_, _, _)
ExpandFrom(s, k, e) ==
    IF k > Len(s) THEN <<>>
    ELSE LET m == MatchEnd(s, k)
         IN  IF m = 0 THEN <<s[k]>> \o ExpandFrom(s, k + 1, e)
             ELSE Replacement(SubSeq(s, k, m), e) \o ExpandFrom(s, m + 1, e)

expandVar(s, e) == ExpandFrom(s, 1, e)

\* shouldSkip looking at the double-quote flags only
ShouldSkip_DoubleOnly(desc, argIndex) ==
    argIndex \in desc.doubleQuotedArgs

\* Execute's per-argument decision (shouldSkip)
ShouldSkip(desc, argIndex) ==
    \/ argIndex \in desc.singleQuotedArgs
    \/ argIndex \in desc.doubleQuotedArgs

\* a substitution loop that splits a substituted argument at its blanks
Substitute_SplitsWords(desc, e) ==
    [desc EXCEPT !.arguments =
        Flatten([k \in 1..Len(desc.arguments) |->
                    IF ShouldSkip(desc, k) THEN <<desc.arguments[k]>>
                    ELSE Split(expandVar(desc.arguments[k], e), " ")])]

\* Execute's substitution loop: the descriptor handed on to the resolver
Substitute(desc, e) ==
    [desc EXCEPT !.arguments =
        [k \in 1..Len(desc.arguments) |->
            IF ShouldSkip(desc, k) THEN desc.arguments[k]
            ELSE expandVar(desc.arguments[k], e)]]

(***************************************************************************)
(* Command resolver: commandFactory.GetCommand and parseGrepCommand        *)
(***************************************************************************)
BoolLiterals ==
    {<<"1">>, <<"t">>, <<"T">>, <<"T","R","U","E">>, <<"t","r","u","e">>,
     <<"T","r","u","e">>, <<"0">>, <<"f">>, <<"F">>,
     <<"F","A","L","S","E">>, <<"f","a","l","s","e">>,
     <<"F","a","l","s","e">>}

\* decimal integers as strconv accepts them for an int flag
IsIntLiteral(v) ==
    LET body == IF v # <<>> /\ v[1] \in {"+", "-"} THEN Tail(v) ELSE v
    IN  body # <<>> /\ \A k \in 1..Len(body) : body[k] \in Digits

GrepBoolFlags == {<<"w">>, <<"i">>}
GrepIntFlags == {<<"A">>}

\* flag.FlagSet.Parse for grep's flag set: [err, rest] where rest = fs.Args()
RECURSIVE FlagParse(_)
FlagParse(args) ==
    IF args = <<>> THEN [err |-> FALSE, rest |-> <<>>]
    ELSE
    LET s == args[1]
        minuses == IF Len(s) >= 2 /\ s[2] = "-" THEN 2 ELSE 1
        body == SubSeq(s, minuses + 1, Len(s))
        eq == IndexFrom(body, "=", 2)
        fname == IF eq = 0 THEN body ELSE SubSeq(body, 1, eq - 1)
        hasValue == eq # 0
        value == IF eq = 0 THEN <<>> ELSE SubSeq(body, eq + 1, Len(body))
        failed == [err |-> TRUE, rest |-> <<>>]
    IN  IF Len(s) < 2 \/ s[1] # "-" THEN [err |-> FALSE, rest |-> args]
        ELSE IF minuses = 2 /\ Len(s) = 2
        THEN [err |-> FALSE, rest |-> Tail(args)]
        ELSE IF body = <<>> \/ body[1] = "-" \/ body[1] = "=" THEN failed
        ELSE IF fname \in GrepBoolFlags
        THEN IF hasValue /\ value \notin BoolLiterals THEN failed
             ELSE FlagParse(Tail(args))
        ELSE IF fname \in GrepIntFlags
        THEN IF hasValue
             THEN IF IsIntLiteral(value) THEN FlagParse(Tail(args)) ELSE failed
             ELSE IF Len(args) < 2 THEN failed
             ELSE IF IsIntLiteral(args[2]) THEN FlagParse(Tail(Tail(args)))
             ELSE failed
        ELSE failed

\* parseGrepCommand without the "pattern required" check
parseGrepCommand_PatternOptional(d) ==
    LET fp == FlagParse(Tail(d.arguments))
    IN  IF fp.err THEN [err |-> TRUE, kind |-> "none"]
        ELSE [err |-> FALSE, kind |-> "grep",
              filePath |-> IF Len(fp.rest) >= 2 THEN fp.rest[2]
                           ELSE IF d.fileInPath # <<>> THEN d.fileInPath
                           ELSE <<>>]

parseGrepCommand(d) ==
    LET fp == FlagParse(Tail(d.arguments))
    IN  IF fp.err THEN [err |-> TRUE, kind |-> "none"]
        ELSE IF Len(fp.rest) = 0 THEN [err |-> TRUE, kind |-> "none"]
        ELSE [err |-> FALSE, kind |-> "grep",
              filePath |-> IF Len(fp.rest) >= 2 THEN fp.rest[2]
                           ELSE IF d.fileInPath # <<>> THEN d.fileInPath
                           ELSE <<>>]

GetCommand(d) ==
    IF d.name = EnvAssignmentCmd
    THEN [err |-> FALSE, kind |-> "envAssignment",
          key |-> d.arguments[1], value |-> d.arguments[2]]
    ELSE IF d.name = ExitCommand THEN [err |-> FALSE, kind |-> "exit"]
    ELSE IF d.name = PWDCommand THEN [err |-> FALSE, kind |-> "pwd"]
    ELSE IF d.name = CatCommand
    THEN [err |-> FALSE, kind |-> "cat",
          filePath |-> IF Len(d.arguments) >= 2 THEN d.arguments[2] ELSE <<>>]
    ELSE IF d.name = EchoCommand THEN [err |-> FALSE, kind |-> "echo"]
    ELSE IF d.name = WCCommand
    THEN [err |-> FALSE, kind |-> "wc",
          filePath |-> IF Len(d.arguments) >= 2 THEN d.arguments[2]
                       ELSE IF d.fileInPath # <<>> THEN d.fileInPath
                       ELSE <<>>]
    ELSE IF d.name = GrepCommand THEN parseGrepCommand(d)
    ELSE [err |-> FALSE, kind |-> "external"]

(***************************************************************************)
(* Command bodies: what Command.Execute can return                         *)
(***************************************************************************)
\* exit statuses an external program that was launched can end with
ExitStatuses == {0, 1, 2}

\* which of the ways to end applies is recorded in how:
\*   "ok" normal end, "fail" run-time failure of a builtin,
\*   "spawn" the external program could not be started,
\*   "status" the external program ran and ended with that status
Outcomes(cmd) ==
    IF cmd.kind = "envAssignment"
    THEN {[code |-> 0, exited |-> FALSE, how |-> "ok"]}
    ELSE IF cmd.kind = "exit"
    THEN {[code |-> 0, exited |-> TRUE, how |-> "ok"]}
    ELSE IF cmd.kind = "pwd"
    THEN {[code |-> 0, exited |-> FALSE, how |-> "ok"],
          [code |-> 0 - 1, exited |-> TRUE, how |-> "fail"]}
    ELSE IF cmd.kind = "echo"
    THEN {[code |-> 0, exited |-> FALSE, how |-> "ok"]}
    ELSE IF cmd.kind \in {"cat", "wc", "grep"}
    THEN {[code |-> 0, exited |-> FALSE, how |-> "ok"],
          [code |-> 1, exited |-> FALSE, how |-> "fail"]}
    ELSE {[code |-> 1, exited |-> FALSE, how |-> "spawn"]}
         \cup {[code |-> st, exited |-> FALSE, how |-> "status"] :
                   st \in ExitStatuses}

\* commands whose body reads its input stream to end-of-stream
ReadsInput(cmd) ==
    \/ cmd.kind \in {"cat", "wc", "grep"} /\ cmd.filePath = <<>>

(***************************************************************************)
(* Input lines: up to MaxStages stage texts joined by ';' or '|'           *)
(***************************************************************************)
StageTexts ==
    { <<"e","c","h","o"," ","a"," ",">"," ","f">>,           \* echo a > f
      <<"e","c","h","o"," ","\"","h"," ","$","V","\"">>,     \* echo "h $V"
      <<"e","c","h","o"," ","'","$","V","'"," ","$","{","V","}">>,
                                                             \* echo '$V' ${V}
      <<"e","x","i","t">>,                                   \* exit
      <<"g","r","e","p">>,                                   \* grep
      <<"c","a","t">>,                                       \* cat
      <<"x","x">>,                                           \* xx
      <<"V","=","w">>,                                       \* V=w
      <<"c","a","t"," ","<"," ","f">> }                      \* cat < f

Separators == {<<";">>, <<"|">>}

RECURSIVE LinesOf(_)
LinesOf(n) ==
    IF n = 0 THEN {<<>>}
    ELSE IF n = 1 THEN StageTexts
    ELSE {l \o sep \o t : l \in LinesOf(n - 1), sep \in Separators,
                          t \in StageTexts}

Lines == UNION {LinesOf(n) : n \in 0..MaxStages}

(***************************************************************************)
(* State                                                                   *)
(***************************************************************************)
VARIABLES
    line,        \* the input line Shell.Run read
    pipeline,    \* the descriptor list Parse returned
    env,         \* the environment store
    pc,          \* "prompt", "fatal", "execute", "loop", "blocked", "returned"
    i,           \* Execute's loop index (1-based)
    fds,         \* open-file table: fds[h] = [kind, closes]
    toClose,     \* Execute's toClose list (handles)
    pipeReads,   \* Execute's pipeReads (0 = nil)
    pipeWrites,  \* Execute's pipeWrites (0 = nil)
    log,         \* what each loop iteration did
    retCode,     \* Execute's results
    exited,
    running,     \* cmd.Execute of stage i was called and has not returned
    left,        \* bytes the running command has still to write
    buf,         \* buf[j]: bytes held by the pipe written by stage j
    scan,        \* tokenizeWithQuotes' locals while it scans line
    stdin,       \* the lines Shell.Run's scanner has still to deliver
    lastRetCode  \* Shell.Run's lastRetCode

vars == <<line, pipeline, env, pc, i, fds, toClose, pipeReads, pipeWrites,
          log, retCode, exited, running, left, buf, scan, stdin, lastRetCode>>

\* the progress of a command's body, byte by byte
bodyVars == <<running, left, buf>>

\* what only the tokenizer's scan and Shell.Run's loop change
outerVars == <<scan, stdin, lastRetCode>>

\* handles of os.Stdin and os.Stdout in fds; 0 is the nil *os.File
Stdin == 1
Stdout == 2

InitFds == <<[kind |-> "stdin", closes |-> 0], [kind |-> "stdout", closes |-> 0]>>

n == Len(pipeline)

Init ==
    /\ line \in Lines
    /\ pipeline = <<>>
    /\ env = <<>>
    /\ pc = "prompt"
    /\ i = 0
    /\ fds = InitFds
    /\ toClose = <<>>
    /\ pipeReads = <<>>
    /\ pipeWrites = <<>>
    /\ log = <<>>
    /\ retCode = 0
    /\ exited = FALSE
    /\ running = FALSE
    /\ left = 0
    /\ buf = <<>>
    /\ scan = TokInit
    /\ stdin = <<>>
    /\ lastRetCode = 0

(***************************************************************************)
(* Shell.Run: parse the line that was read                                 *)
(***************************************************************************)
ParseLine ==
    /\ pc = "prompt"
    /\ pipeline' = Parse(line)
    /\ pc' = IF ParseError(line) THEN "fatal" ELSE "execute"
    /\ UNCHANGED <<line, env, i, fds, toClose, pipeReads, pipeWrites, log,
                   retCode, exited>>
    /\ UNCHANGED bodyVars
    /\ UNCHANGED outerVars

(***************************************************************************)
(* pipelineRunner.Execute                                                  *)
(***************************************************************************)
\* f.Close() on handle h (nothing for nil)
CloseFd(f, h) == IF h = 0 THEN f ELSE [f EXCEPT ![h].closes = @ + 1]

\* the deferred function: close every handle of toClose, in order
RECURSIVE CloseAll(_, _)
CloseAll(f, hs) ==
    IF hs = <<>> THEN f ELSE CloseAll(CloseFd(f, Head(hs)), Tail(hs))

\* a return statement of Execute: set the results, run the deferred close
Return(code, ex, f, tc) ==
    /\ pc' = "returned"
    /\ retCode' = code
    /\ exited' = ex
    /\ fds' = CloseAll(f, tc)
    /\ toClose' = tc

\* len(pipeline) == 0
ExecuteEmpty ==
    /\ pc = "execute"
    /\ n = 0
    /\ Return(0, FALSE, fds, toClose)
    /\ UNCHANGED <<line, pipeline, env, i, pipeReads, pipeWrites, log>>
    /\ UNCHANGED bodyVars
    /\ UNCHANGED outerVars

\* the table after the first k pipes were created: pipe j has its read end at
\* handle 2 + 2j - 1 and its write end at handle 2 + 2j
PipesMade(k) ==
    InitFds \o [h \in 1..(2 * k) |->
                  [kind |-> IF h % 2 = 1 THEN "pipeRead" ELSE "pipeWrite",
                   closes |-> 0]]

ReadEnd(j) == 2 + 2 * j - 1
WriteEnd(j) == 2 + 2 * j

\* the pipe creation loop, every os.Pipe succeeding
CreatePipes ==
    /\ pc = "execute"
    /\ n > 0
    /\ fds' = PipesMade(n - 1)
    /\ toClose' = [h \in 1..(2 * (n - 1)) |-> 2 + h]
    /\ pipeWrites' = [j \in 1..n |-> IF j < n THEN WriteEnd(j) ELSE 0]
    /\ pipeReads' = [j \in 1..n |-> IF j > 1 THEN ReadEnd(j - 1) ELSE 0]
    /\ pc' = "loop"
    /\ i' = 1
    /\ UNCHANGED <<line, pipeline, env, log, retCode, exited>>
    /\ UNCHANGED bodyVars
    /\ UNCHANGED outerVars

\* the pipe creation loop, os.Pipe failing for pipe k
CreatePipesFail ==
    /\ pc = "execute"
    /\ n > 0
    /\ \E k \in 1..(n - 1) :
        /\ pipeWrites' = [j \in 1..n |-> IF j < k THEN WriteEnd(j) ELSE 0]
        /\ pipeReads' = [j \in 1..n |-> IF 1 < j /\ j <= k THEN ReadEnd(j - 1)
                                        ELSE 0]
        /\ log' = Append(log, [ev |-> "pipe_fail", stage |-> k, name |-> <<>>,
                                arguments |-> <<>>, in |-> 0, out |-> 0,
                                code |-> 0, exited |-> FALSE, how |-> "none"])
        /\ Return(0 - 1, FALSE, PipesMade(k - 1),
                  [h \in 1..(2 * (k - 1)) |-> 2 + h])
    /\ UNCHANGED <<line, pipeline, env, i>>
    /\ UNCHANGED bodyVars
    /\ UNCHANGED outerVars

\* the loop body's view of stage i
desc == Substitute(pipeline[i], env)
cmd == GetCommand(desc)
isLastCommand == i = n

\* a pipe read end whose write end nobody has closed never reports EOF
NeverEOF(f, h) ==
    /\ h # 0
    /\ f[h].kind = "pipeRead"
    /\ f[h + 1].closes = 0

Entry(ev, in, out, o) ==
    [ev |-> ev, stage |-> i, name |-> desc.name, arguments |-> desc.arguments,
     in |-> in, out |-> out, code |-> o.code, exited |-> o.exited,
     how |-> o.how]

NoOutcome == [code |-> 0, exited |-> FALSE, how |-> "none"]

\* exit that is not the last command: not resolved, not run
SkipExit ==
    /\ pc = "loop"
    /\ desc.name = ExitCommand
    /\ ~isLastCommand
    /\ fds' = CloseFd(fds, pipeWrites[i])
    /\ log' = Append(log, Entry("skip", 0, 0, NoOutcome))
    /\ i' = i + 1
    /\ UNCHANGED <<line, pipeline, env, pc, toClose, pipeReads, pipeWrites,
                   retCode, exited>>
    /\ UNCHANGED bodyVars
    /\ UNCHANGED outerVars

Resolving ==
    /\ pc = "loop"
    /\ ~(desc.name = ExitCommand /\ ~isLastCommand)

\* GetCommand fails
ResolveFail ==
    /\ Resolving
    /\ cmd.err
    /\ log' = Append(log, Entry("resolve_fail", 0, 0, NoOutcome))
    /\ Return(127, FALSE, CloseFd(fds, pipeWrites[i]), toClose)
    /\ UNCHANGED <<line, pipeline, env, i, pipeReads, pipeWrites>>
    /\ UNCHANGED bodyVars
    /\ UNCHANGED outerVars

\* a failed os.Open that lets the loop go on with the next stage
OpenInFail_Continues ==
    /\ Resolving
    /\ ~cmd.err
    /\ desc.fileInPath # <<>>
    /\ log' = Append(log, Entry("open_in_fail", 0, 0, NoOutcome))
    /\ i' = i + 1
    /\ UNCHANGED <<line, pipeline, env, pc, fds, toClose, pipeReads,
                   pipeWrites, retCode, exited>>
    /\ UNCHANGED bodyVars
    /\ UNCHANGED outerVars

\* os.Open(desc.fileInPath) fails
OpenInFail ==
    /\ Resolving
    /\ ~cmd.err
    /\ desc.fileInPath # <<>>
    /\ log' = Append(log, Entry("open_in_fail", 0, 0, NoOutcome))
    /\ Return(0 - 1, FALSE, CloseFd(fds, pipeWrites[i]), toClose)
    /\ UNCHANGED <<line, pipeline, env, i, pipeReads, pipeWrites>>
    /\ UNCHANGED bodyVars
    /\ UNCHANGED outerVars

\* the table and toClose after the input file (if any) was opened
FdsIn == IF desc.fileInPath # <<>>
         THEN Append(fds, [kind |-> "fileIn", closes |-> 0]) ELSE fds
ToCloseIn == IF desc.fileInPath # <<>>
             THEN Append(toClose, Len(fds) + 1) ELSE toClose
inDescriptor ==
    IF desc.fileInPath # <<>> THEN Len(fds) + 1
    ELSE IF pipeReads[i] # 0 THEN pipeReads[i]
    ELSE Stdin

\* os.Create(desc.fileOutPath) fails
OpenOutFail ==
    /\ Resolving
    /\ ~cmd.err
    /\ desc.fileOutPath # <<>>
    /\ log' = Append(log, Entry("open_out_fail", inDescriptor, 0, NoOutcome))
    /\ Return(0 - 1, FALSE, CloseFd(FdsIn, pipeWrites[i]), ToCloseIn)
    /\ UNCHANGED <<line, pipeline, env, i, pipeReads, pipeWrites>>
    /\ UNCHANGED bodyVars
    /\ UNCHANGED outerVars

\* the table and toClose after the output file (if any) was created
FdsOut == IF desc.fileOutPath # <<>>
          THEN Append(FdsIn, [kind |-> "fileOut", closes |-> 0]) ELSE FdsIn
\* a toClose list the created output file is not appended to
ToCloseOut_FileForgotten == ToCloseIn

ToCloseOut == IF desc.fileOutPath # <<>>
              THEN Append(ToCloseIn, Len(FdsIn) + 1) ELSE ToCloseIn
\* the output stream chosen with the pipe ahead of the file
outDescriptor_PipeFirst ==
    IF pipeWrites[i] # 0 THEN pipeWrites[i]
    ELSE IF desc.fileOutPath # <<>> THEN Len(FdsIn) + 1
    ELSE Stdout

outDescriptor ==
    IF desc.fileOutPath # <<>> THEN Len(FdsIn) + 1
    ELSE IF pipeWrites[i] # 0 THEN pipeWrites[i]
    ELSE Stdout

\* an assignment that does not reach the store
EnvAfter_Unchanged(c, e) == e

\* the command's effect on the environment store
EnvAfter(c, e) ==
    IF c.kind = "envAssignment" THEN EnvSet(e, c.key, c.value) ELSE e

\* cmd.Execute returns; the code after it up to the next iteration or return
RunStage ==
    /\ Resolving
    /\ ~cmd.err
    /\ ~(ReadsInput(cmd) /\ NeverEOF(FdsOut, inDescriptor))
    /\ \E o \in Outcomes(cmd) :
        LET closed == IF pipeWrites[i] # 0 /\ outDescriptor = pipeWrites[i]
                      THEN CloseFd(FdsOut, pipeWrites[i]) ELSE FdsOut
        IN  /\ log' = Append(log, Entry("run", inDescriptor, outDescriptor, o))
            /\ env' = EnvAfter(cmd, env)
            /\ IF o.exited /\ isLastCommand
               THEN Return(o.code, TRUE, closed, ToCloseOut) /\ i' = i
               ELSE IF isLastCommand
               THEN Return(o.code, FALSE, closed, ToCloseOut) /\ i' = i
               ELSE /\ fds' = closed
                    /\ toClose' = ToCloseOut
                    /\ i' = i + 1
                    /\ UNCHANGED <<pc, retCode, exited>>
    /\ UNCHANGED <<line, pipeline, pipeReads, pipeWrites>>
    /\ UNCHANGED bodyVars
    /\ UNCHANGED outerVars

\* cmd.Execute never returns: the command waits for the end of a pipe that
\* stays open (an external program may or may not read its input)
StageBlocked ==
    /\ Resolving
    /\ ~cmd.err
    /\ ReadsInput(cmd) \/ cmd.kind = "external"
    /\ NeverEOF(FdsOut, inDescriptor)
    /\ log' = Append(log, Entry("blocked", inDescriptor, outDescriptor,
                                NoOutcome))
    /\ fds' = FdsOut
    /\ toClose' = ToCloseOut
    /\ pc' = "blocked"
    /\ UNCHANGED <<line, pipeline, env, i, pipeReads, pipeWrites, retCode,
                   exited>>
    /\ UNCHANGED bodyVars
    /\ UNCHANGED outerVars

Next ==
    \/ ParseLine
    \/ ExecuteEmpty
    \/ CreatePipes
    \/ CreatePipesFail
    \/ SkipExit
    \/ ResolveFail
    \/ OpenInFail
    \/ OpenOutFail
    \/ RunStage
    \/ StageBlocked

Spec == Init /\ [][Next]_vars

(***************************************************************************)
(* Vocabulary of the properties                                            *)
(***************************************************************************)
Last(sq) == sq[Len(sq)]

V == <<"V">>
DollarV == <<"$","V">>

\* log entries of iterations that handed the substituted descriptor to
\* GetCommand
ResolverEvents == {"run", "blocked", "resolve_fail", "open_in_fail",
                   "open_out_fail"}

\* this step hands stage i to the resolver
HandsToResolver == log' # log /\ Last(log').ev \in ResolverEvents

\* an I/O setup failure (os.Pipe, os.Open, os.Create) ended the call
IOSetupFailed ==
    \E k \in 1..Len(log) :
        log[k].ev \in {"pipe_fail", "open_in_fail", "open_out_fail"}

Ran(k) == \E j \in 1..Len(log) : log[j].stage = k /\ log[j].ev = "run"

RunEntry(k) ==
    log[CHOOSE j \in 1..Len(log) : log[j].stage = k /\ log[j].ev = "run"]

FailedToResolve(k) ==
    \E j \in 1..Len(log) : log[j].stage = k /\ log[j].ev = "resolve_fail"

\* the stage was run, or it counted as 127 because it did not resolve
Attempted(k) == Ran(k) \/ FailedToResolve(k)

StageCode(k) == IF FailedToResolve(k) THEN 127 ELSE RunEntry(k).code

MidExit(k) == k < n /\ pipeline[k].name = ExitCommand

\* the loop reached stage k and skipped it
Skipped(k) == \E j \in 1..Len(log) : log[j].stage = k /\ log[j].ev = "skip"

Returned == pc = "returned"

(***************************************************************************)
(* C1                                                                      *)
(***************************************************************************)
\* C1: every argument whose token was fully enclosed in double quotes
\* reaches the resolver with each $NAME / ${NAME} of a set variable replaced
\* by the variable's value.
C1_DoubleQuotedSubstituted ==
    [][HandsToResolver =>
         \A k \in pipeline[i].doubleQuotedArgs :
             Last(log').arguments[k] = expandVar(pipeline[i].arguments[k], env)
      ]_vars

C3_PipeOnlyWhenPiped ==
    \A j \in 1..Len(log) :
        (/\ log[j].ev = "run"
         /\ ~pipeline[log[j].stage].isPiped
         /\ pipeline[log[j].stage].fileOutPath = <<>>)
        => log[j].out = Stdout

\* C4: a stage with no inputPath whose predecessor is not isPiped is invoked
\* with the session's default input stream.
C4_ReadsPipeOnlyAfterPiped ==
    \A j \in 1..Len(log) :
        (/\ log[j].ev = "run"
         /\ pipeline[log[j].stage].fileInPath = <<>>
         /\ (log[j].stage = 1 \/ ~pipeline[log[j].stage - 1].isPiped))
        => log[j].in = Stdin

(***************************************************************************)
(* C5 .. C9: exit and exit codes.  The statements are taken for the calls  *)
(* in which no I/O setup failure aborted the pipeline.                     *)
(***************************************************************************)
\* C5: an exit at a position other than the last is not executed, does not
\* make Execute report termination, the stages after it still run, and the
\* returned code is the terminal stage's (taken for the calls whose loop
\* reached the exit).
C5_MidExitIsNoOp ==
    (Returned /\ ~IOSetupFailed) =>
        \A k \in 1..n :
            (MidExit(k) /\ Skipped(k)) =>
                /\ ~Ran(k)
                /\ exited => (Ran(n) /\ RunEntry(n).exited)
                /\ \A m \in (k + 1)..n : ~MidExit(m) => Attempted(m)
                /\ Attempted(n) /\ retCode = StageCode(n)

\* C6: when the last descriptor is exit, Execute returns with the
\* termination flag set, whatever the stages before it did.
C6_TerminalExitTerminates ==
    (Returned /\ ~IOSetupFailed /\ n > 0 /\ pipeline[n].name = ExitCommand)
        => exited

\* C7: when exit is the terminal stage, the returned code is the code of the
\* stage that precedes it.
C7_ExitInheritsCode ==
    (/\ Returned /\ exited
     /\ n >= 2
     /\ pipeline[n].name = ExitCommand
     /\ Ran(n - 1))
        => retCode = RunEntry(n - 1).code

\* C8: when the terminal stage is not exit, the returned code is the
\* terminal stage's own code.
C8_TerminalCodeReturned ==
    (Returned /\ ~IOSetupFailed /\ n > 0 /\ pipeline[n].name # ExitCommand)
        => (Attempted(n) /\ retCode = StageCode(n))

\* C9: a stage that fails to resolve counts as 127 and every later stage of
\* the line is still executed.
C9_ResolutionFailureIsolated ==
    (Returned /\ ~IOSetupFailed) =>
        \A k \in 1..n :
            FailedToResolve(k) =>
                \A m \in (k + 1)..n : ~MidExit(m) => Attempted(m)

(***************************************************************************)
(* C10                                                                     *)
(***************************************************************************)
\* C10: a stage naming an external executable that cannot be spawned yields
\* exit code 127.
C10_SpawnFailureIs127 ==
    \A j \in 1..Len(log) :
        (log[j].ev = "run" /\ log[j].how = "spawn") => log[j].code = 127

(***************************************************************************)
(* Substitution on its own: an optional assignment, then an echo whose     *)
(* argument is built from up to MaxPieces pieces                           *)
(***************************************************************************)
MaxPieces == 3

U == <<"U">>

\* a piece of an argument: literal text, $NAME or ${NAME}
SubstPieces ==
    {[form |-> "lit", text |-> <<"-">>]}
        \cup [form : {"dollar", "brace"}, text : {U, V}]

PieceSeqs == UNION {[1..k -> SubstPieces] : k \in 1..MaxPieces}

RenderPiece(p) ==
    IF p.form = "lit" THEN p.text
    ELSE IF p.form = "dollar" THEN <<"$">> \o p.text
    ELSE <<"$", "{">> \o p.text \o <<"}">>

Render(ps) == Flatten([k \in 1..Len(ps) |-> RenderPiece(ps[k])])

\* what the pieces are to become: a reference to a variable of the store
\* becomes its value, everything else stays as it was written
ExpectPiece(p, e) ==
    IF p.form # "lit" /\ p.text \in DOMAIN e THEN e[p.text]
    ELSE RenderPiece(p)

Expect(ps, e) == Flatten([k \in 1..Len(ps) |-> ExpectPiece(ps[k], e)])

AssignTexts == {<<"V","=","w">>, <<"U","=","w">>}

Joiners == {<<";">>, <<"|">>, <<" ">>}

EchoTexts == {<<"e","c","h","o"," ">> \o Render(ps) : ps \in PieceSeqs}

SubstLines ==
    EchoTexts \cup {a \o j \o t : a \in AssignTexts, j \in Joiners,
                                  t \in EchoTexts}

InitSubst ==
    /\ line \in SubstLines
    /\ pipeline = <<>>
    /\ env = <<>>
    /\ pc = "prompt"
    /\ i = 0
    /\ fds = InitFds
    /\ toClose = <<>>
    /\ pipeReads = <<>>
    /\ pipeWrites = <<>>
    /\ log = <<>>
    /\ retCode = 0
    /\ exited = FALSE
    /\ running = FALSE
    /\ left = 0
    /\ buf = <<>>
    /\ scan = TokInit
    /\ stdin = <<>>
    /\ lastRetCode = 0

NextSubst ==
    \/ ParseLine
    \/ CreatePipes
    \/ RunStage

SpecSubst == InitSubst /\ [][NextSubst]_vars

\* argument k of stage i is open to substitution
Unquoted(k) ==
    k \notin pipeline[i].singleQuotedArgs \cup pipeline[i].doubleQuotedArgs

(***************************************************************************)
(* C16                                                                     *)
(***************************************************************************)
\* C16: an assignment made by descriptor K is visible to the substitution
\* of descriptor K+1, whatever separates the two: when the descriptor after
\* an assignment is handed to the resolver, the store holds the assigned
\* value and the arguments were substituted from that store.
C16_AssignmentVisibleToNext ==
    [][(HandsToResolver /\ i > 1 /\ pipeline[i - 1].name = EnvAssignmentCmd)
         => /\ Last(log).stage = i - 1
            /\ Last(log).ev = "run"
            /\ EnvHas(env, Last(log).arguments[1])
            /\ EnvGet(env, Last(log).arguments[1]) = Last(log).arguments[2]
            /\ \A k \in 1..Len(pipeline[i].arguments) :
                 Unquoted(k) =>
                    Last(log').arguments[k]
                        = expandVar(pipeline[i].arguments[k], env)
      ]_vars

\* `V=w echo $V`: separated by whitespace only, echo is handed w
C16_Witness ==
    /\ \A k \in 1..Len(line) : line[k] \notin {";", "|"}
    /\ Len(log) = 2
    /\ log[1].ev = "run"
    /\ log[1].name = EnvAssignmentCmd
    /\ log[1].arguments = <<V, <<"w">>>>
    /\ log[2].ev = "run"
    /\ pipeline[2].arguments[2] = DollarV
    /\ log[2].arguments[2] = <<"w">>

(***************************************************************************)
(* C18                                                                     *)
(***************************************************************************)
\* every piece sequence with the text it is written as
Rendered == {[ps |-> ps, text |-> Render(ps)] : ps \in PieceSeqs}

\* C18: in an argument open to substitution, $NAME and ${NAME} of a variable
\* that is not in the store stay as written, and the references to set
\* variables in the same argument are replaced by their values.
C18_UnsetLeftLiteral ==
    [][HandsToResolver =>
         \A k \in 1..Len(pipeline[i].arguments) :
            \A r \in Rendered :
                (Unquoted(k) /\ pipeline[i].arguments[k] = r.text)
                    => Last(log').arguments[k] = Expect(r.ps, env)
      ]_vars

\* an argument with $U, ${U} (unset) and a reference to V (set)
C18_Witness ==
    /\ Returned
    /\ EnvHas(env, V)
    /\ ~EnvHas(env, U)
    /\ Last(log).ev = "run"
    /\ \E ps \in PieceSeqs :
        /\ pipeline[n].arguments[2] = Render(ps)
        /\ \E k \in 1..Len(ps) : ps[k] = [form |-> "dollar", text |-> U]
        /\ \E k \in 1..Len(ps) : ps[k] = [form |-> "brace", text |-> U]
        /\ \E k \in 1..Len(ps) : ps[k].form # "lit" /\ ps[k].text = V
        /\ Last(log).arguments[2] = Expect(ps, env)
        /\ Last(log).arguments[2] # pipeline[n].arguments[2]

(***************************************************************************)
(* C11 .. C13: failures and the release of handles                         *)
(***************************************************************************)
\* the arguments of a grep invocation name no pattern
GrepPatternMissing(args) ==
    LET fp == FlagParse(Tail(args)) IN ~fp.err /\ Len(fp.rest) = 0

\* C11: grep without a pattern fails at resolution: its Execute is never
\* invoked and the call reports 127 without ending the session.
C11_MissingPatternFailsAtResolution ==
    \A j \in 1..Len(log) :
        (/\ log[j].ev \in ResolverEvents
         /\ log[j].name = GrepCommand
         /\ GrepPatternMissing(log[j].arguments))
            => /\ log[j].ev = "resolve_fail"
               /\ j = Len(log)
               /\ Returned
               /\ retCode = 127
               /\ ~exited

C11_Witness ==
    /\ Returned
    /\ retCode = 127
    /\ ~exited
    /\ log # <<>>
    /\ Last(log).ev = "resolve_fail"
    /\ Last(log).name = GrepCommand
    /\ GrepPatternMissing(Last(log).arguments)

OpenFailEvents == {"open_in_fail", "open_out_fail"}

\* C12: a redirection file that cannot be opened aborts the whole pipeline:
\* neither that stage nor a later one is executed and the call returns
\* without reporting termination.
C12_RedirectionFailureAborts ==
    \A j \in 1..Len(log) :
        log[j].ev \in OpenFailEvents
            => /\ j = Len(log)
               /\ Returned
               /\ ~exited
               /\ \A m \in log[j].stage..n : ~Ran(m)

C12_Witness ==
    /\ Returned
    /\ ~exited
    /\ log # <<>>
    /\ Last(log).ev \in OpenFailEvents
    /\ Last(log).stage < n
    /\ \A m \in Last(log).stage..n : ~Ran(m)

\* the handles this call opened: everything after os.Stdin and os.Stdout
OpenedHandles == (Stdout + 1)..Len(fds)

\* C13: when Execute returns, every redirection file and pipe end it opened
\* has been closed exactly once.
C13_ClosedExactlyOnce ==
    Returned => \A h \in OpenedHandles : fds[h].closes = 1

(***************************************************************************)
(* The bodies of piped commands byte by byte: stages without redirection   *)
(* joined by '|', each pipe holding at most PipeBuf bytes                  *)
(***************************************************************************)
\* the capacity of a pipe, in units of the model (64 KiB on Linux)
PipeBuf == 2

\* the most a command writes: one unit more than a pipe holds
MaxWrite == PipeBuf + 1

PipeStageTexts == {<<"c","a","t">>, <<"x","x">>, <<"e","c","h","o"," ","a">>}

RECURSIVE PipeLinesOf(_)
PipeLinesOf(k) ==
    IF k = 1 THEN PipeStageTexts
    ELSE {l \o <<"|">> \o t : l \in PipeLinesOf(k - 1), t \in PipeStageTexts}

PipeLines == UNION {PipeLinesOf(k) : k \in 2..MaxStages}

InitPipe ==
    /\ line \in PipeLines
    /\ pipeline = <<>>
    /\ env = <<>>
    /\ pc = "prompt"
    /\ i = 0
    /\ fds = InitFds
    /\ toClose = <<>>
    /\ pipeReads = <<>>
    /\ pipeWrites = <<>>
    /\ log = <<>>
    /\ retCode = 0
    /\ exited = FALSE
    /\ running = FALSE
    /\ left = 0
    /\ buf = <<>>
    /\ scan = TokInit
    /\ stdin = <<>>
    /\ lastRetCode = 0

\* bytes held by the pipe that stage j writes
Held(j) == IF j \in DOMAIN buf THEN buf[j] ELSE 0

SetHeld(j, v) == [k \in DOMAIN buf \cup {j} |-> IF k = j THEN v ELSE Held(k)]

\* how much a command writes to its output: echo, wc and pwd one short
\* line, an assignment and exit nothing, cat, grep and an external program
\* any amount
OutputSizes(c) ==
    IF c.kind \in {"echo", "wc", "pwd"} THEN {1}
    ELSE IF c.kind \in {"envAssignment", "exit"} THEN {0}
    ELSE 0..MaxWrite

WritesToPipe == pipeWrites[i] # 0 /\ outDescriptor = pipeWrites[i]
ReadsFromPipe == pipeReads[i] # 0 /\ inDescriptor = pipeReads[i]

\* Execute calls cmd.Execute(inDescriptor, outDescriptor, env)
EnterStage ==
    /\ Resolving
    /\ ~cmd.err
    /\ ~running
    /\ desc.fileInPath = <<>>
    /\ desc.fileOutPath = <<>>
    /\ running' = TRUE
    /\ left' \in OutputSizes(cmd)
    /\ log' = Append(log, Entry("start", inDescriptor, outDescriptor,
                                NoOutcome))
    /\ UNCHANGED <<line, pipeline, env, pc, i, fds, toClose, pipeReads,
                   pipeWrites, retCode, exited, buf>>
    /\ UNCHANGED outerVars

\* the running command writes one unit; a write to a full pipe blocks
WriteByte ==
    /\ pc = "loop"
    /\ running
    /\ left > 0
    /\ WritesToPipe => Held(i) < PipeBuf
    /\ left' = left - 1
    /\ buf' = IF WritesToPipe THEN SetHeld(i, Held(i) + 1) ELSE buf
    /\ UNCHANGED <<line, pipeline, env, pc, i, fds, toClose, pipeReads,
                   pipeWrites, log, retCode, exited, running>>
    /\ UNCHANGED outerVars

\* the running command reads one unit from its inbound pipe
ReadByte ==
    /\ pc = "loop"
    /\ running
    /\ ReadsInput(cmd) \/ cmd.kind = "external"
    /\ ReadsFromPipe
    /\ Held(i - 1) > 0
    /\ buf' = SetHeld(i - 1, Held(i - 1) - 1)
    /\ UNCHANGED <<line, pipeline, env, pc, i, fds, toClose, pipeReads,
                   pipeWrites, log, retCode, exited, running, left>>
    /\ UNCHANGED outerVars

\* cmd.Execute returns: everything is written and, for a command that reads
\* to end-of-stream, the inbound pipe is drained and its write end closed;
\* then the code after the call, as in RunStage
FinishStage ==
    /\ pc = "loop"
    /\ running
    /\ left = 0
    /\ (ReadsInput(cmd) /\ ReadsFromPipe)
          => (Held(i - 1) = 0 /\ ~NeverEOF(fds, inDescriptor))
    /\ \E o \in Outcomes(cmd) :
        LET closed == IF WritesToPipe THEN CloseFd(fds, pipeWrites[i])
                      ELSE fds
        IN  /\ log' = Append(log, Entry("run", inDescriptor, outDescriptor, o))
            /\ env' = EnvAfter(cmd, env)
            /\ IF o.exited /\ isLastCommand
               THEN Return(o.code, TRUE, closed, toClose) /\ i' = i
               ELSE IF isLastCommand
               THEN Return(o.code, FALSE, closed, toClose) /\ i' = i
               ELSE /\ fds' = closed
                    /\ toClose' = toClose
                    /\ i' = i + 1
                    /\ UNCHANGED <<pc, retCode, exited>>
    /\ running' = FALSE
    /\ UNCHANGED <<line, pipeline, pipeReads, pipeWrites, left, buf>>
    /\ UNCHANGED outerVars

NextPipe ==
    \/ ParseLine
    \/ CreatePipes
    \/ EnterStage
    \/ WriteByte
    \/ ReadByte
    \/ FinishStage

\* the steps of Execute and of the commands it runs
ExecuteSteps ==
    \/ CreatePipes
    \/ EnterStage
    \/ WriteByte
    \/ ReadByte
    \/ FinishStage

\* once Execute is called, whatever can take a step eventually takes one:
\* Execute runs on, and the operating system schedules every process that
\* is able to run
SpecPipe == InitPipe /\ [][NextPipe]_vars /\ WF_vars(ExecuteSteps)

\* cmd.Execute of stage k has been called
Started(k) == \E j \in 1..Len(log) : log[j].stage = k /\ log[j].ev = "start"

\* Execute has the parsed line, and every consumer reads to end-of-stream
ConsumersReadToEnd ==
    /\ pc = "execute"
    /\ \A k \in 2..n : pipeline[k].name = CatCommand

(***************************************************************************)
(* C14, C15                                                                *)
(***************************************************************************)
\* C14: a pipeline whose consumers read their input to end-of-stream
\* completes whatever amount its producers write: Execute eventually
\* returns.
C14_PipelineCompletes == ConsumersReadToEnd ~> Returned

\* C15: piped stages run concurrently: while the executor waits for a stage
\* to finish, every stage of the pipeline has been started.
C15_AllStartedBeforeWaiting ==
    running => \A k \in 1..n : Started(k)

(***************************************************************************)
(* C17                                                                     *)
(***************************************************************************)
\* C17: an assignment does not affect the exit code: a line that ends with
\* an assignment returns the code of the command before it.
C17_AssignmentKeepsExitCode ==
    (/\ Returned
     /\ ~IOSetupFailed
     /\ n >= 2
     /\ pipeline[n].name = EnvAssignmentCmd
     /\ pipeline[n - 1].name \notin {EnvAssignmentCmd, ExitCommand}
     /\ Attempted(n - 1))
        => retCode = StageCode(n - 1)

(***************************************************************************)
(* C19                                                                     *)
(***************************************************************************)
StartedEvents == {"run", "blocked"}

\* C19: a stage with a fileOutPath is invoked with that file as its output
\* and a stage with a fileInPath with that file as its input, whether or not
\* a pipe exists on that side.
C19_RedirectionBeforePipe ==
    \A j \in 1..Len(log) :
        log[j].ev \in StartedEvents
            => /\ pipeline[log[j].stage].fileOutPath # <<>>
                    => fds[log[j].out].kind = "fileOut"
               /\ pipeline[log[j].stage].fileInPath # <<>>
                    => fds[log[j].in].kind = "fileIn"

C19_Witness ==
    /\ \E j \in 1..Len(log) :
        /\ log[j].ev = "run"
        /\ pipeline[log[j].stage].fileOutPath # <<>>
        /\ pipeWrites[log[j].stage] # 0
        /\ fds[log[j].out].kind = "fileOut"
    /\ \E j \in 1..Len(log) :
        /\ log[j].ev = "run"
        /\ pipeline[log[j].stage].fileInPath # <<>>
        /\ pipeReads[log[j].stage] # 0
        /\ fds[log[j].in].kind = "fileIn"

(***************************************************************************)
(* Parse on its own: every line of up to MaxLineLen characters             *)
(***************************************************************************)
MaxLineLen == 4

ParseAlphabet == {"a", "=", "$", " ", "<", ">", "|", ";", "'", "\""}

ParseLines == UNION {[1..len -> ParseAlphabet] : len \in 0..MaxLineLen}

InitParse ==
    /\ line \in ParseLines
    /\ pipeline = <<>>
    /\ env = <<>>
    /\ pc = "prompt"
    /\ i = 0
    /\ fds = InitFds
    /\ toClose = <<>>
    /\ pipeReads = <<>>
    /\ pipeWrites = <<>>
    /\ log = <<>>
    /\ retCode = 0
    /\ exited = FALSE
    /\ running = FALSE
    /\ left = 0
    /\ buf = <<>>
    /\ scan = TokInit
    /\ stdin = <<>>
    /\ lastRetCode = 0

NextParse == ParseLine

SpecParse == InitParse /\ [][NextParse]_vars

\* Parse has returned
Parsed == pc = "execute"

(***************************************************************************)
(* C20                                                                     *)
(***************************************************************************)
\* C20: every descriptor Parse returns is well-formed: a descriptor named
\* by the assignment sentinel has exactly two arguments, any other has a
\* non-empty argument list whose first element is its name.
C20_DescriptorsWellFormed ==
    Parsed =>
        \A k \in 1..n :
            IF pipeline[k].name = EnvAssignmentCmd
            THEN Len(pipeline[k].arguments) = 2
            ELSE /\ pipeline[k].arguments # <<>>
                 /\ pipeline[k].arguments[1] = pipeline[k].name

(***************************************************************************)
(* The line as Parse cuts it: clauses, then stage fragments                *)
(***************************************************************************)
\* sum of the first k elements of a sequence of numbers
RECURSIVE SumTo(_, _)
SumTo(ns, k) == IF k = 0 THEN 0 ELSE ns[k] + SumTo(ns, k - 1)

\* the clauses of the line, trimmed
ClausesOf(input) ==
    LET raw == Split(input, ";") IN [k \in 1..Len(raw) |-> TrimSpace(raw[k])]

\* how many descriptors each clause contributes
ClauseSizes(input) ==
    LET cs == ClausesOf(input)
    IN  [k \in 1..Len(cs) |->
            IF cs[k] = <<>> THEN 0 ELSE Len(parsePipeline(cs[k]))]

\* the positions, in the list Parse returns, of the last descriptor of each
\* pipeline
PipelineEnds(input) ==
    LET sz == ClauseSizes(input)
    IN  {SumTo(sz, k) : k \in {j \in 1..Len(sz) : sz[j] > 0}}

(***************************************************************************)
(* C21                                                                     *)
(***************************************************************************)
\* C21: no descriptor that is the last of its pipeline has isPiped = TRUE.
C21_LastOfPipelineNotPiped ==
    Parsed => \A k \in PipelineEnds(line) : ~pipeline[k].isPiped

(***************************************************************************)
(* C23                                                                     *)
(***************************************************************************)
\* sub occurs in s as a run of consecutive characters
Occurs(sub, s) ==
    \E p \in 0..(Len(s) - Len(sub)) : SubSeq(s, p + 1, p + Len(sub)) = sub

\* C23: an argument is marked fully single-quoted only if its whole content
\* stood between one opening and one closing single quote: the line holds
\* the argument's text enclosed in single quotes.
C23_MarkedOnlyIfFullyQuoted ==
    Parsed =>
        \A k \in 1..n :
            \A a \in pipeline[k].singleQuotedArgs :
                Occurs(<<"'">> \o pipeline[k].arguments[a] \o <<"'">>, line)

(***************************************************************************)
(* C25                                                                     *)
(***************************************************************************)
QuoteChars == {"'", "\""}

\* C25: a bare < or > with no following token is dropped: on a line without
\* quotes no argument of any descriptor is a redirection operator.
C25_BareOperatorDropped ==
    (Parsed /\ \A p \in 1..Len(line) : line[p] \notin QuoteChars) =>
        \A k \in 1..n :
            \A a \in 1..Len(pipeline[k].arguments) :
                pipeline[k].arguments[a] \notin {LT, GT}

(***************************************************************************)
(* C24                                                                     *)
(***************************************************************************)
\* the stage fragments parsePipeline tokenizes, in source order
FragmentsOf(input) ==
    LET cs == ClausesOf(input)
        parts(k) == Split(cs[k], "|")
    IN  SelectSeq(
            Flatten([k \in 1..Len(cs) |->
                        [m \in 1..Len(parts(k)) |-> TrimSpace(parts(k)[m])]]),
            LAMBDA f : f # <<>>)

\* the scan of text t ends inside a quote
EndsInQuote(t) ==
    LET st == TokScan(t, 1, TokInit)
    IN  st.inSingleQuote \/ st.inDoubleQuote

\* the text after the quote that is open at the end of t: what follows the
\* last quote character of the open kind
OpenQuoteText(t) ==
    LET st == TokScan(t, 1, TokInit)
        q == IF st.inSingleQuote THEN "'" ELSE "\""
        at == CHOOSE p \in 1..Len(t) :
                  t[p] = q /\ \A r \in (p + 1)..Len(t) : t[r] # q
    IN  SubSeq(t, at + 1, Len(t))

EndsWith(s, suffix) ==
    /\ Len(suffix) <= Len(s)
    /\ SubSeq(s, Len(s) - Len(suffix) + 1, Len(s)) = suffix

\* text t ends in an open quote whose text is the end of the last token of
\* one of the fragments
OpenQuoteTextIsToken(t, fragments) ==
    (EndsInQuote(t) /\ OpenQuoteText(t) # <<>>) =>
        \E m \in 1..Len(fragments) :
            LET tokens == tokenizeWithQuotes(fragments[m]).tokens
            IN  tokens # <<>> /\ EndsWith(Last(tokens), OpenQuoteText(t))

\* C24 as stated: Parse reports no error, and the text after an unterminated
\* quote up to the end of the line becomes token content.
C24_OpenQuoteRunsToEndOfLine ==
    /\ pc # "fatal"
    /\ Parsed => OpenQuoteTextIsToken(line, FragmentsOf(line))

\* C24, amended: Parse reports no error, and in every stage fragment the
\* text after an unterminated quote up to the end of the fragment becomes
\* the end of the fragment's last token.
C24_OpenQuoteRunsToEndOfFragment ==
    /\ pc # "fatal"
    /\ Parsed =>
         \A m \in 1..Len(FragmentsOf(line)) :
            OpenQuoteTextIsToken(FragmentsOf(line)[m],
                                 <<FragmentsOf(line)[m]>>)

\* a quote left open before a separator: `'a;a`
C24_Witness ==
    /\ Parsed
    /\ n = 2
    /\ EndsInQuote(line)
    /\ \E m \in 1..Len(FragmentsOf(line)) :
        /\ EndsInQuote(FragmentsOf(line)[m])
        /\ OpenQuoteText(FragmentsOf(line)[m]) # <<>>
        /\ OpenQuoteText(FragmentsOf(line)[m]) # OpenQuoteText(line)
        /\ pipeline[m].name = OpenQuoteText(FragmentsOf(line)[m])

(***************************************************************************)
(* C26                                                                     *)
(***************************************************************************)
SeparatorChars == {";", "|"}
WhitespaceChars == {" "}

Blank(t) == \A p \in 1..Len(t) : t[p] \in WhitespaceChars

\* a descriptor list without the isPiped fields
Core(ds) ==
    [k \in 1..Len(ds) |->
        [name |-> ds[k].name, arguments |-> ds[k].arguments,
         fileInPath |-> ds[k].fileInPath, fileOutPath |-> ds[k].fileOutPath,
         singleQuotedArgs |-> ds[k].singleQuotedArgs,
         doubleQuotedArgs |-> ds[k].doubleQuotedArgs]]

\* t with separator c written once more after position p
InsertAfter(t, p, c) == SubSeq(t, 1, p) \o <<c>> \o SubSeq(t, p + 1, Len(t))

\* the lines made from t by one more leading, trailing or doubled separator
WithExtraSeparator(t) ==
    {<<c>> \o t : c \in SeparatorChars}
        \cup {t \o <<c>> : c \in SeparatorChars}
        \cup {InsertAfter(t, p, t[p]) :
                p \in {q \in 1..Len(t) : t[q] \in SeparatorChars}}

\* C26: a blank line yields no descriptor, and one more leading, trailing or
\* doubled `;` / `|` leaves the list of descriptors as it was.
C26_EmptyPiecesAddNothing ==
    Parsed =>
        /\ Blank(line) => n = 0
        /\ \A t \in WithExtraSeparator(line) : Core(Parse(t)) = Core(pipeline)

\* `a;;a`, `a||a`, `a;a;`: descriptors around consecutive or trailing
\* separators
C26_Witness ==
    /\ Parsed
    /\ n = 2
    /\ \E p \in 1..(Len(line) - 1) :
          line[p] \in SeparatorChars /\ line[p + 1] \in SeparatorChars

(***************************************************************************)
(* Lines made of whole words: the parser on assignments, redirections and  *)
(* quoted words                                                            *)
(***************************************************************************)
MaxWords == 3

Words ==
    { <<"a">>,                              \* a
      <<"'","c","'">>,                      \* 'c'
      <<"k","=","v">>,                      \* k=v
      <<"<">>,                              \* <
      <<">">>,                              \* >
      <<"<"," ","a">>,                      \* < a
      <<"<"," ","b">>,                      \* < b
      <<"|">>,                              \* |
      <<";">>,                              \* ;
      <<"\"","'","\"">> }                   \* "'"

RECURSIVE WordLinesOf(_)
WordLinesOf(k) ==
    IF k = 0 THEN {<<>>}
    ELSE IF k = 1 THEN Words
    ELSE {l \o <<" ">> \o w : l \in WordLinesOf(k - 1), w \in Words}

WordLines == UNION {WordLinesOf(k) : k \in 0..MaxWords}

InitWords ==
    /\ line \in WordLines
    /\ pipeline = <<>>
    /\ env = <<>>
    /\ pc = "prompt"
    /\ i = 0
    /\ fds = InitFds
    /\ toClose = <<>>
    /\ pipeReads = <<>>
    /\ pipeWrites = <<>>
    /\ log = <<>>
    /\ retCode = 0
    /\ exited = FALSE
    /\ running = FALSE
    /\ left = 0
    /\ buf = <<>>
    /\ scan = TokInit
    /\ stdin = <<>>
    /\ lastRetCode = 0

NextWords == ParseLine

SpecWords == InitWords /\ [][NextWords]_vars

(***************************************************************************)
(* C22                                                                     *)
(***************************************************************************)
\* the token indices, from j on, that are neither a redirection operator
\* with a following token nor that following token
RECURSIVE ArgSources(_, _)
ArgSources(tokens, j) ==
    IF j > Len(tokens) THEN <<>>
    ELSE IF tokens[j] \in {LT, GT} /\ j < Len(tokens)
    THEN ArgSources(tokens, j + 2)
    ELSE <<j>> \o ArgSources(tokens, j + 1)

\* per stage fragment of the line: its tokens with their flags, the number
\* of leading assignments, and the source tokens of the arguments
Stages ==
    LET fs == FragmentsOf(line)
    IN  [m \in 1..Len(fs) |->
            LET tk == tokenizeWithQuotes(fs[m])
                start == CmdStartIdx(tk.tokens, 1)
            IN  [text |-> fs[m], tk |-> tk, start |-> start,
                 src |-> ArgSources(tk.tokens, start + 1)]]

HasInvocation(m) == Stages[m].src # <<>>

\* the place in the list of the invocation descriptor of stage m
InvocationAt(m) ==
    SumTo([k \in 1..Len(Stages) |->
              Stages[k].start + (IF HasInvocation(k) THEN 1 ELSE 0)], m)

\* C22: every flag index is an index into arguments, and argument k of an
\* invocation is flagged exactly when the token it came from was, whatever
\* redirections and assignments were taken out before it.
C22_FlagsFollowArguments ==
    Parsed =>
        /\ \A k \in 1..n :
              pipeline[k].singleQuotedArgs \cup pipeline[k].doubleQuotedArgs
                  \subseteq 1..Len(pipeline[k].arguments)
        /\ \A m \in 1..Len(Stages) :
              HasInvocation(m) =>
                  LET d == pipeline[InvocationAt(m)]
                      st == Stages[m]
                  IN  /\ Len(d.arguments) = Len(st.src)
                      /\ \A k \in 1..Len(st.src) :
                            /\ d.arguments[k] = st.tk.tokens[st.src[k]]
                            /\ k \in d.singleQuotedArgs
                                  <=> st.src[k] \in st.tk.singleQuoted
                            /\ k \in d.doubleQuotedArgs
                                  <=> st.src[k] \in st.tk.doubleQuoted

\* `a < b 'c'`: the flagged token is the fourth, the flagged argument the
\* second
C22_Witness ==
    /\ Parsed
    /\ \E m \in 1..Len(Stages) :
        /\ HasInvocation(m)
        /\ pipeline[InvocationAt(m)].fileInPath # <<>>
        /\ Len(pipeline[InvocationAt(m)].arguments) >= 2
        /\ \E k \in pipeline[InvocationAt(m)].singleQuotedArgs :
              Stages[m].src[k] > k

(***************************************************************************)
(* C27                                                                     *)
(***************************************************************************)
\* the token indices, from j on, of the operators op that the left-to-right
\* scan reads as operators: followed by a token and not taken as a path
RECURSIVE OpSources(_, _, _)
OpSources(tokens, j, op) ==
    IF j > Len(tokens) THEN <<>>
    ELSE IF tokens[j] \in {LT, GT} /\ j < Len(tokens)
    THEN (IF tokens[j] = op THEN <<j>> ELSE <<>>)
            \o OpSources(tokens, j + 2, op)
    ELSE OpSources(tokens, j + 1, op)

StageOps(m, op) == OpSources(Stages[m].tk.tokens, Stages[m].start + 1, op)

\* the path the last operator op of stage m names, or none
LastPath(m, op) ==
    IF StageOps(m, op) = <<>> THEN <<>>
    ELSE Stages[m].tk.tokens[Last(StageOps(m, op)) + 1]

\* the arguments of stage m's descriptor are the tokens that are neither
\* operator nor path, in token order
ArgumentsKeepOrder(m) ==
    LET d == pipeline[InvocationAt(m)]
        st == Stages[m]
    IN  d.arguments = [k \in 1..Len(st.src) |-> st.tk.tokens[st.src[k]]]

\* C27 as stated: the token following each `<` / `>` is the descriptor's
\* input / output path, and the arguments are the other tokens in order.
C27_EveryOperatorSetsPath ==
    Parsed =>
        \A m \in 1..Len(Stages) :
            HasInvocation(m) =>
                /\ \A k \in 1..Len(StageOps(m, LT)) :
                      pipeline[InvocationAt(m)].fileInPath
                          = Stages[m].tk.tokens[StageOps(m, LT)[k] + 1]
                /\ \A k \in 1..Len(StageOps(m, GT)) :
                      pipeline[InvocationAt(m)].fileOutPath
                          = Stages[m].tk.tokens[StageOps(m, GT)[k] + 1]
                /\ ArgumentsKeepOrder(m)

\* C27, amended: the token following the last `<` / `>` of a stage is the
\* descriptor's input / output path, and the arguments are the tokens that
\* are neither operator nor path, in order.
C27_LastOperatorSetsPath ==
    Parsed =>
        \A m \in 1..Len(Stages) :
            HasInvocation(m) =>
                /\ pipeline[InvocationAt(m)].fileInPath = LastPath(m, LT)
                /\ pipeline[InvocationAt(m)].fileOutPath = LastPath(m, GT)
                /\ ArgumentsKeepOrder(m)

\* `a < a < b`: two input redirections with different paths
C27_Witness ==
    /\ Parsed
    /\ \E m \in 1..Len(Stages) :
        /\ HasInvocation(m)
        /\ Len(StageOps(m, LT)) = 2
        /\ Stages[m].tk.tokens[StageOps(m, LT)[1] + 1] # LastPath(m, LT)
        /\ Stages[m].tk.tokens[StageOps(m, LT)[1] + 1] \notin {LT, GT}
        /\ LastPath(m, LT) \notin {LT, GT}
        /\ pipeline[InvocationAt(m)].fileInPath = LastPath(m, LT)

(***************************************************************************)
(* C28                                                                     *)
(***************************************************************************)
\* token t has the form key=value
KeyValue(t) ==
    /\ \E p \in 1..Len(t) : t[p] = "="
    /\ t[1] # "="
    /\ t[Len(t)] # "="
    /\ t \notin {LT, GT}

FirstEq(t) == CHOOSE p \in 1..Len(t) : t[p] = "=" /\ \A q \in 1..(p - 1) : t[q] # "="

\* the number of leading key=value tokens
LeadingKeyValues(tokens) ==
    CHOOSE k \in 0..Len(tokens) :
        /\ \A j \in 1..k : KeyValue(tokens[j])
        /\ k = Len(tokens) \/ ~KeyValue(tokens[k + 1])

StageTokens(m) == tokenizeWithQuotes(FragmentsOf(line)[m]).tokens

Lead(m) == LeadingKeyValues(StageTokens(m))

\* the tokens of stage m left for the invocation
Rest(m) == ArgSources(StageTokens(m), Lead(m) + 1)

\* the number of descriptors of the stages before stage m
Base(m) ==
    SumTo([k \in 1..Len(FragmentsOf(line)) |->
              Lead(k) + (IF Rest(k) # <<>> THEN 1 ELSE 0)], m - 1)

CommandStages ==
    SelectSeq([m \in 1..Len(FragmentsOf(line)) |-> m],
              LAMBDA m : Rest(m) # <<>>)

\* the argument tokens of stage m
CommandWords(m) == [k \in 1..Len(Rest(m)) |-> StageTokens(m)[Rest(m)[k]]]

\* the invocation descriptors of the list, in list order
Invocations == SelectSeq(pipeline, LAMBDA d : d.name # EnvAssignmentCmd)

\* C29: the invocation descriptors of the list are, in order, those of the
\* stages that have a command word, one per stage, clauses and stages left
\* to right.
C29_SourceOrder ==
    Parsed =>
        [k \in 1..Len(Invocations) |-> Invocations[k].arguments]
            = [k \in 1..Len(CommandStages) |-> CommandWords(CommandStages[k])]

\* `a ; 'c'` or `a | 'c'`: two stages with different command words
C29_Witness ==
    /\ Parsed
    /\ Len(CommandStages) = 2
    /\ Len(Invocations) = 2
    /\ Invocations[1].name # Invocations[2].name
    /\ \E p \in 1..Len(line) : line[p] = ";"

(***************************************************************************)
(* C30                                                                     *)
(***************************************************************************)
\* strings.Join(arguments, " ")
RECURSIVE JoinSpaces(_)
JoinSpaces(ws) ==
    IF ws = <<>> THEN <<>>
    ELSE IF Len(ws) = 1 THEN ws[1]
    ELSE ws[1] \o <<" ">> \o JoinSpaces(Tail(ws))

\* parsing the joined arguments of d gives d's name and arguments back
Reparses(d) ==
    LET again == Parse(JoinSpaces(d.arguments))
    IN  /\ Len(again) = 1
        /\ again[1].name = d.name
        /\ again[1].arguments = d.arguments

\* every argument of d is one plain word
PlainWords(d) ==
    \A k \in 1..Len(d.arguments) :
        \A p \in 1..Len(d.arguments[k]) :
            d.arguments[k][p] \notin QuoteChars \cup WhitespaceChars

\* C30 as stated: the joined arguments of every invocation descriptor parse
\* to the same name and arguments.
C30_ReparseIdempotent ==
    Parsed => \A k \in 1..Len(Invocations) : Reparses(Invocations[k])

\* C30, amended: the joined arguments of an invocation descriptor parse to
\* the same name and arguments when the arguments hold no whitespace and no
\* quote character and the name is not of the form key=value.
C30_ReparsePlainWords ==
    Parsed =>
        \A k \in 1..Len(Invocations) :
            (PlainWords(Invocations[k]) /\ ~KeyValue(Invocations[k].name))
                => Reparses(Invocations[k])

\* `a 'c' < b`: a quoted word and a redirection, gone from the joined text
C30_Witness ==
    /\ Parsed
    /\ \E k \in 1..Len(Invocations) :
        /\ PlainWords(Invocations[k])
        /\ ~KeyValue(Invocations[k].name)
        /\ Len(Invocations[k].arguments) = 2
        /\ Invocations[k].singleQuotedArgs # {}
        /\ Invocations[k].fileInPath # <<>>
        /\ Reparses(Invocations[k])

(***************************************************************************)
(* The Environment Store on its own: NewEnv, then Set and Get calls        *)
(***************************************************************************)
MaxCalls == 3

EnvKeys == {<<"V">>, <<"U">>}
EnvValues == {<<"w">>, <<>>}

\* what os.Environ() may hold when NewEnv runs
HostEnvironments ==
    UNION {[ks -> EnvValues] : ks \in SUBSET EnvKeys}

\* the store writes of NewEnv, one per host variable
SeedWrites(host) ==
    LET keys == DOMAIN host
        order == CHOOSE sq \in [1..Cardinality(keys) -> keys] :
                     \A k \in keys : \E p \in DOMAIN sq : sq[p] = k
    IN  [p \in 1..Cardinality(keys) |->
            [ev |-> "seed", key |-> order[p], value |-> host[order[p]],
             ok |-> TRUE]]

InitEnv ==
    /\ \E host \in HostEnvironments :
          /\ env = host
          /\ log = SeedWrites(host)
    /\ line = <<>>
    /\ pipeline = <<>>
    /\ pc = "session"
    /\ i = 0
    /\ fds = InitFds
    /\ toClose = <<>>
    /\ pipeReads = <<>>
    /\ pipeWrites = <<>>
    /\ retCode = 0
    /\ exited = FALSE
    /\ running = FALSE
    /\ left = 0
    /\ buf = <<>>
    /\ scan = TokInit
    /\ stdin = <<>>
    /\ lastRetCode = 0

\* the number of Set and Get calls made so far
Calls == Cardinality({p \in 1..Len(log) : log[p].ev \in {"set", "get"}})

SetCall ==
    /\ pc = "session"
    /\ Calls < MaxCalls
    /\ \E key \in EnvKeys, value \in EnvValues :
          /\ env' = EnvSet(env, key, value)
          /\ log' = Append(log, [ev |-> "set", key |-> key, value |-> value,
                                 ok |-> TRUE])
    /\ UNCHANGED <<line, pipeline, pc, i, fds, toClose, pipeReads,
                   pipeWrites, retCode, exited, running, left, buf>>
    /\ UNCHANGED outerVars

GetCall ==
    /\ pc = "session"
    /\ Calls < MaxCalls
    /\ \E key \in EnvKeys :
          log' = Append(log, [ev |-> "get", key |-> key,
                              value |-> EnvGet(env, key),
                              ok |-> EnvHas(env, key)])
    /\ UNCHANGED <<line, pipeline, env, pc, i, fds, toClose, pipeReads,
                   pipeWrites, retCode, exited, running, left, buf>>
    /\ UNCHANGED outerVars

NextEnv == SetCall \/ GetCall

SpecEnv == InitEnv /\ [][NextEnv]_vars

(***************************************************************************)
(* C31                                                                     *)
(***************************************************************************)
\* the places before p where key was written by a call of one of the kinds
WritesBefore(p, key, kinds) ==
    {q \in 1..(p - 1) : log[q].ev \in kinds /\ log[q].key = key}

Latest(ps) == CHOOSE q \in ps : \A r \in ps : r <= q

\* every Get so far returned the latest write of one of the kinds to its
\* key, and found = false when there was none
GetsReturnLatest(kinds) ==
    \A p \in 1..Len(log) :
        log[p].ev = "get" =>
            LET ws == WritesBefore(p, log[p].key, kinds)
            IN  IF ws = {} THEN ~log[p].ok
                ELSE log[p].ok /\ log[p].value = log[Latest(ws)].value

\* C31 as stated: Get returns the most recent Set of its key, and found =
\* false for a key no Set call has written.
C31_GetReturnsLatestSet == GetsReturnLatest({"set"})

\* C31, amended: Get returns the most recent write of its key, by Set or by
\* NewEnv's copy of the host environment, and found = false for a key that
\* was neither set nor inherited.
C31_GetReturnsLatestWrite == GetsReturnLatest({"set", "seed"})

\* a key overwritten and read back after a Set of the other key
C31_Witness ==
    \E p \in 1..Len(log) :
        /\ log[p].ev = "get"
        /\ log[p].ok
        /\ Cardinality(WritesBefore(p, log[p].key, {"set", "seed"})) >= 2
        /\ \E q \in 1..(p - 1) :
              /\ log[q].ev = "set"
              /\ log[q].key # log[p].key
              /\ q > Latest(WritesBefore(p, log[p].key, {"set", "seed"}))

(***************************************************************************)
(* C32                                                                     *)
(***************************************************************************)
\* this step calls cmd.Execute of a stage
Invokes == pc = "loop" /\ Len(log') = Len(log) + 1
              /\ Last(log').ev \in {"run", "blocked"}

\* C32: whenever a stage is invoked with the read end of a pipe as its
\* input, the write end of that pipe has already been closed.
C32_WriteEndClosedBeforeDownstream ==
    [][(Invokes /\ pipeReads[i] # 0 /\ Last(log').in = pipeReads[i])
          => fds[pipeReads[i] + 1].closes > 0]_vars

(***************************************************************************)
(* Lines whose command word or assignment holds a variable reference       *)
(***************************************************************************)
HandoffPrefixes ==
    { <<"V","=","w">>,                          \* V=w
      <<"V","=","e","c","h","o">>,              \* V=echo
      <<"V","=","'","a"," ","b","'">> }         \* V='a b'

\* what NewEnv found in the host environment: nothing, or an empty V
HandoffHosts == {<<>>, [k \in {V} |-> <<>>]}

HandoffBodies ==
    { <<"$","V"," ","h","i">>,                  \* $V hi
      <<"K","=","'","$","V","'">>,              \* K='$V'
      <<"'","K","=","$","V","'">>,              \* 'K=$V'
      <<"$","V","=","x">>,                      \* $V=x
      <<"K","=","$","U">>,                      \* K=$U
      <<"e","c","h","o"," ","$","V">> }         \* echo $V

HandoffLines ==
    HandoffBodies \cup {p \o j \o b : p \in HandoffPrefixes, j \in Joiners,
                                      b \in HandoffBodies}

InitHandoff ==
    /\ line \in HandoffLines
    /\ pipeline = <<>>
    /\ env \in HandoffHosts
    /\ pc = "prompt"
    /\ i = 0
    /\ fds = InitFds
    /\ toClose = <<>>
    /\ pipeReads = <<>>
    /\ pipeWrites = <<>>
    /\ log = <<>>
    /\ retCode = 0
    /\ exited = FALSE
    /\ running = FALSE
    /\ left = 0
    /\ buf = <<>>
    /\ scan = TokInit
    /\ stdin = <<>>
    /\ lastRetCode = 0

NextHandoff ==
    \/ ParseLine
    \/ CreatePipes
    \/ RunStage

SpecHandoff == InitHandoff /\ [][NextHandoff]_vars

(***************************************************************************)
(* C33                                                                     *)
(***************************************************************************)
\* C33: the descriptor of an invocation that is handed to the resolver has
\* its name as its first argument.
C33_NameIsFirstArgument ==
    [][(HandsToResolver /\ pipeline[i].name # EnvAssignmentCmd)
          => Last(log').arguments[1] = Last(log').name]_vars

(***************************************************************************)
(* C34                                                                     *)
(***************************************************************************)
\* C34: the descriptor handed to the resolver has as many arguments as the
\* parsed one, argument k being parsed argument k as written or with its
\* variable references replaced, and Execute leaves the list it was given
\* as it was.
C34_OneForOne ==
    [][/\ pc # "prompt" => pipeline' = pipeline
       /\ HandsToResolver =>
            /\ Len(Last(log').arguments) = Len(pipeline[i].arguments)
            /\ \A k \in 1..Len(pipeline[i].arguments) :
                  Last(log').arguments[k]
                      \in {pipeline[i].arguments[k],
                           expandVar(pipeline[i].arguments[k], env)}
      ]_vars

\* an argument that became `a b` and one that became empty, each still one
\* argument
C34_Witness ==
    /\ Returned
    /\ \E p \in 1..Len(log) :
        /\ log[p].ev = "run"
        /\ log[p].name = EchoCommand
        /\ pipeline[log[p].stage].arguments = <<EchoCommand, DollarV>>
        /\ log[p].arguments \in {<<EchoCommand, <<"a", " ", "b">>>>,
                                 <<EchoCommand, <<>>>>}

(***************************************************************************)
(* C39                                                                     *)
(***************************************************************************)
KeyK == <<"K">>

MaxScanLen == 4

ScanAlphabet == {"a", " ", "'", "\""}

ScanInputs == UNION {[1..len -> ScanAlphabet] : len \in 0..MaxScanLen}

InitScan ==
    /\ line \in ScanInputs
    /\ scan = TokInit
    /\ i = 0
    /\ pc = "scan"
    /\ pipeline = <<>>
    /\ env = <<>>
    /\ fds = InitFds
    /\ toClose = <<>>
    /\ pipeReads = <<>>
    /\ pipeWrites = <<>>
    /\ log = <<>>
    /\ retCode = 0
    /\ exited = FALSE
    /\ running = FALSE
    /\ left = 0
    /\ buf = <<>>
    /\ stdin = <<>>
    /\ lastRetCode = 0

\* one iteration of the loop: i characters are behind the scan
ScanChar ==
    /\ pc = "scan"
    /\ i < Len(line)
    /\ scan' = TokStep(scan, line[i + 1])
    /\ i' = i + 1
    /\ UNCHANGED <<line, pipeline, env, pc, fds, toClose, pipeReads,
                   pipeWrites, log, retCode, exited, stdin, lastRetCode>>
    /\ UNCHANGED bodyVars

\* the end of the input: the token in progress is emitted
ScanEnd ==
    /\ pc = "scan"
    /\ i = Len(line)
    /\ scan' = IF scan.current # <<>> THEN TokEmit(scan) ELSE scan
    /\ pc' = "scanned"
    /\ UNCHANGED <<line, pipeline, env, i, fds, toClose, pipeReads,
                   pipeWrites, log, retCode, exited, stdin, lastRetCode>>
    /\ UNCHANGED bodyVars

NextScan == ScanChar \/ ScanEnd

SpecScan == InitScan /\ [][NextScan]_vars

(***************************************************************************)
(* C35                                                                     *)
(***************************************************************************)
\* this step is a loop iteration on character c
Scans(c) == pc = "scan" /\ i' = i + 1 /\ line[i + 1] = c

BothQuotes(st) == st.inSingleQuote /\ st.inDoubleQuote

\* the step copies c into the token and changes nothing else
CopiesLiteral(c) == scan' = [scan EXCEPT !.current = Append(scan.current, c)]

\* the step toggles the quote state q and leaves token and tokens alone
TogglesOnly(q) ==
    /\ scan'[q] = ~scan[q]
    /\ scan'.current = scan.current
    /\ scan'.tokens = scan.tokens

\* C35: the two inside-quote states are never both active; a quote character
\* inside a run of the other kind is copied as a literal and changes no
\* state; a quote character that opens or closes a run is not copied.
C35_QuoteStatesExclusive ==
    [][/\ ~BothQuotes(scan) /\ ~BothQuotes(scan')
       /\ (Scans("'") /\ scan.inDoubleQuote) => CopiesLiteral("'")
       /\ (Scans("\"") /\ scan.inSingleQuote) => CopiesLiteral("\"")
       /\ (Scans("'") /\ ~scan.inDoubleQuote)
             => (TogglesOnly("inSingleQuote")
                    /\ scan'.inDoubleQuote = scan.inDoubleQuote)
       /\ (Scans("\"") /\ ~scan.inSingleQuote)
             => (TogglesOnly("inDoubleQuote")
                    /\ scan'.inSingleQuote = scan.inSingleQuote)
      ]_vars

\* `"'"`: a single quote kept as the content of a double-quoted token
C35_Witness ==
    /\ pc = "scanned"
    /\ line = <<"\"", "'", "\"">>
    /\ scan.tokens = <<<<"'">>>>
    /\ scan.doubleQuoted = {1}

(***************************************************************************)
(* C37                                                                     *)
(***************************************************************************)
\* the first separator of t at or after position p, or Len(t) + 1
NextSeparator(t, p) ==
    CHOOSE q \in p..(Len(t) + 1) :
        /\ q = Len(t) + 1 \/ t[q] \in SeparatorChars
        /\ \A r \in p..(q - 1) : t[r] \notin SeparatorChars

\* the stretches of t between its `;` and `|` characters, quoted or not
RECURSIVE PiecesFrom(_, _)
PiecesFrom(t, p) ==
    LET q == NextSeparator(t, p)
    IN  <<SubSeq(t, p, q - 1)>>
            \o (IF q > Len(t) THEN <<>> ELSE PiecesFrom(t, q + 1))

\* the texts a descriptor holds
TextsOf(d) ==
    {d.name, d.fileInPath, d.fileOutPath}
        \cup {d.arguments[k] : k \in 1..Len(d.arguments)}

\* C37: the descriptors of a line are those of its stretches between `;` and
\* `|` characters, each stretch parsed on its own, whether or not a
\* separator stands inside quotes; no separator is part of a descriptor.
C37_SplitBeforeQuotes ==
    Parsed =>
        /\ Core(pipeline)
              = Core(Flatten([k \in 1..Len(PiecesFrom(line, 1)) |->
                                 Parse(PiecesFrom(line, 1)[k])]))
        /\ \A k \in 1..n :
              \A t \in TextsOf(pipeline[k]) :
                  \A p \in 1..Len(t) : t[p] \notin SeparatorChars

\* `'a;a`: a separator after an opening quote, a descriptor on either side
\* of it
C37_Witness ==
    /\ Parsed
    /\ n = 2
    /\ \E p \in 1..Len(line) :
          /\ line[p] \in SeparatorChars
          /\ EndsInQuote(SubSeq(line, 1, p - 1))

(***************************************************************************)
(* C38                                                                     *)
(***************************************************************************)
\* C38: when Execute has returned, on whatever path, every pipe end and
\* every redirection file it opened has been closed at least once.
C38_NothingLeftOpen ==
    Returned => \A h \in OpenedHandles : fds[h].closes >= 1

\* a call that made a pipe and created an output file, and ended on a
\* failure of a later stage
C38_Witness ==
    /\ Returned
    /\ \E h \in OpenedHandles : fds[h].kind = "fileOut"
    /\ \E h \in OpenedHandles : fds[h].kind = "pipeRead"
    /\ Last(log).ev \in {"resolve_fail", "open_in_fail"}

(***************************************************************************)
(* Shell.Run: the loop over the lines of the input                         *)
(***************************************************************************)
MaxInputLines == 2

SessionLines ==
    { <<>>,                                     \* an empty line
      <<"e","x","i","t">>,                      \* exit
      <<"x","x">>,                              \* xx
      <<"e","x","i","t",";","x","x">>,          \* exit;xx
      <<"p","w","d">>,                          \* pwd
      <<"g","r","e","p">> }                     \* grep

SessionInputs == UNION {[1..k -> SessionLines] : k \in 0..MaxInputLines}

InitSession ==
    /\ stdin \in SessionInputs
    /\ lastRetCode = 0
    /\ pc = "read"
    /\ line = <<>>
    /\ pipeline = <<>>
    /\ env = <<>>
    /\ i = 0
    /\ fds = InitFds
    /\ toClose = <<>>
    /\ pipeReads = <<>>
    /\ pipeWrites = <<>>
    /\ log = <<>>
    /\ retCode = 0
    /\ exited = FALSE
    /\ running = FALSE
    /\ left = 0
    /\ buf = <<>>
    /\ scan = TokInit

\* scanner.Scan() delivers the next line; the call of Execute that follows
\* starts with fresh locals
ReadLine ==
    /\ pc = "read"
    /\ stdin # <<>>
    /\ line' = Head(stdin)
    /\ stdin' = Tail(stdin)
    /\ pc' = "prompt"
    /\ pipeline' = <<>>
    /\ i' = 0
    /\ fds' = InitFds
    /\ toClose' = <<>>
    /\ pipeReads' = <<>>
    /\ pipeWrites' = <<>>
    /\ retCode' = 0
    /\ exited' = FALSE
    /\ UNCHANGED <<env, log, scan, lastRetCode>>
    /\ UNCHANGED bodyVars

\* scanner.Scan() reports the end of the input: Run returns lastRetCode
EndOfInput ==
    /\ pc = "read"
    /\ stdin = <<>>
    /\ pc' = "done"
    /\ UNCHANGED <<line, pipeline, env, i, fds, toClose, pipeReads,
                   pipeWrites, log, retCode, exited>>
    /\ UNCHANGED bodyVars
    /\ UNCHANGED outerVars

\* a loop that goes on reading whatever Execute reported
AfterExecute_IgnoresExit ==
    /\ pc = "returned"
    /\ lastRetCode' = retCode
    /\ pc' = "read"
    /\ UNCHANGED <<line, pipeline, env, i, fds, toClose, pipeReads,
                   pipeWrites, log, retCode, exited, scan, stdin>>
    /\ UNCHANGED bodyVars

\* Execute has returned: keep its code, and return it if it reported
\* termination
AfterExecute ==
    /\ pc = "returned"
    /\ lastRetCode' = retCode
    /\ pc' = IF exited THEN "done" ELSE "read"
    /\ UNCHANGED <<line, pipeline, env, i, fds, toClose, pipeReads,
                   pipeWrites, log, retCode, exited, scan, stdin>>
    /\ UNCHANGED bodyVars

NextSession ==
    \/ ReadLine
    \/ EndOfInput
    \/ ParseLine
    \/ ExecuteEmpty
    \/ CreatePipes
    \/ CreatePipesFail
    \/ SkipExit
    \/ ResolveFail
    \/ RunStage
    \/ AfterExecute

SpecSession == InitSession /\ [][NextSession]_vars

(***************************************************************************)
(* C36                                                                     *)
(***************************************************************************)
\* Run has returned; its result is lastRetCode
RunReturned == pc = "done"

\* C36: when Execute reports termination Run returns that call's code at
\* once, reading no further line; when it does not, Run goes on to read;
\* Run returns for no other reason than a reported termination or the end
\* of the input, and does nothing after it returned.
C36_StopsAtFirstTermination ==
    [][/\ (pc = "returned" /\ exited)
             => (RunReturned' /\ lastRetCode' = retCode /\ stdin' = stdin)
       /\ (pc = "returned" /\ ~exited) => pc' = "read"
       /\ RunReturned'
             => \/ pc = "returned" /\ exited
                \/ pc = "read" /\ stdin = <<>>
       /\ ~RunReturned
      ]_vars

\* Run returned on a reported termination with a line still unread
C36_Witness ==
    /\ RunReturned
    /\ exited
    /\ stdin # <<>>
    /\ lastRetCode = retCode

====
